---- MODULE Spec2Model ----
(***************************************************************************)
(* Document ingestion and removal pipeline of the chatbot backend:         *)
(* artifacts/documents_load.py (process_event, delete_resource), the       *)
(* DynamoDB helpers of artifacts/dynamodb_utils.py, the local membership   *)
(* cache of artifacts/bd_utils.py and the endpoints of api.py.             *)
(*                                                                         *)
(* The external stores are modelled by their contents:                     *)
(*   files_table  DynamoDB table db_learning_resources (key resource_id)   *)
(*   hash_table   DynamoDB table db_learning_resources_hash (key file_hash)*)
(*   index        the Pinecone index, a set of vectors with metadata       *)
(*   downloads    the local folder ./downloads                            *)
(*   s3           the objects of the S3 bucket                             *)
(*   library      DynamoDB library table (key silabus_id)                  *)
(*   local_rows   SQLite table recursos_didacticos                         *)
(***************************************************************************)
EXTENDS Integers, Sequences, FiniteSets, TLC

\* ------------------------------------------------------------------ bounds
MaxOps == 3          \* requests (add_resource, delete_resource) started in one behaviour
MaxOverlap == 2      \* a request may start beside a running one only among the first MaxOverlap
MaxFaults == 1       \* store / network calls that may raise in one behaviour
MaxMatches == 2      \* matches the index returns for one query
MaxPieces == 2       \* blank-line separated pieces of one document text
MaxTitleLen == 3     \* characters of a title handed to sanitize_filename
MaxTime == 2         \* seconds the clock of upload_message runs through

\* --------------------------------------------------------------- constants
NoItem == [present |-> FALSE]   \* DynamoDB response without 'Item'
NoFile == "NoFile"   \* path that does not exist
None == "None"       \* Python None
NoSnap == [taken |-> FALSE]   \* no snapshot taken
NoneIds == <<-1>>    \* Python None where a list of vector ids is expected
NoPath == <<>>       \* attribute s3_path missing
NoResponse == [sent |-> FALSE]   \* no endpoint call has returned yet

NoFilter == [none |-> TRUE]   \* filter=None

\* no call of query_pinecone is under way
NoQuery ==
    [pc |-> "idle", syllabus_event_id |-> [given |-> FALSE, value |-> 0],
     data |-> [given |-> FALSE, rows |-> <<>>], results |-> <<>>,
     threshold |-> 75, filter |-> NoFilter, relevant_data |-> <<>>]

\* no helper function is being applied
NoCall == [pc |-> "idle"]

\* no item under a key of the chat history table
NoTurn == [present |-> FALSE]

\* user ids and syllabus ids of the chat endpoints
Users == {"u1", "u2"}
ScopeIds == {"1", "2"}

\* message.APIResponse as the two resource endpoints build it
APIResponse(success, message) ==
    [sent |-> TRUE, success |-> success, message |-> message]

Rids == {"R1", "R2"}
Contents == {"A", "B"}
DriveIds == {"D1", "D2", "D3"}
SilaboIds == {1}

\* bytes served by Google Drive for a drive id; D1 and D2 are byte-identical
DriveContent(d) == IF d = "D3" THEN "B" ELSE "A"

\* str() of a syllabus id, the key of the library table
Str(n) == IF n = 1 THEN "1" ELSE "2"

Silabos == {Str(n) : n \in SilaboIds}

\* ------------------------------------------------------------- characters
\* A title is a sequence of characters.  "iacute" is the precomposed letter
\* U+00ED, "COMB_ACUTE" the combining mark U+0301 (category Mn).
NFD(c) == IF c = "iacute" THEN <<"i", "COMB_ACUTE">> ELSE <<c>>

Category(c) == IF c = "COMB_ACUTE" THEN "Mn" ELSE "Other"

RECURSIVE Normalize(_)
Normalize(s) == IF s = <<>> THEN <<>> ELSE NFD(Head(s)) \o Normalize(Tail(s))

RECURSIVE DropMarks(_)
DropMarks(s) ==
    IF s = <<>> THEN <<>>
    ELSE (IF Category(Head(s)) # "Mn" THEN <<Head(s)>> ELSE <<>>) \o DropMarks(Tail(s))

ReplaceSpaces(s) == [i \in 1..Len(s) |-> IF s[i] = " " THEN "_" ELSE s[i]]

sanitize_filename(filename) == ReplaceSpaces(DropMarks(Normalize(filename)))

LowerChar(c) ==
    CASE c = "X" -> "x" [] c = "L" -> "l" [] c = "S" -> "s" [] OTHER -> c

lower(s) == [i \in 1..Len(s) |-> LowerChar(s[i])]

endswith(s, suf) ==
    /\ Len(s) >= Len(suf)
    /\ SubSeq(s, Len(s) - Len(suf) + 1, Len(s)) = suf

\* extension dispatch of process_event
FileType(file_name) ==
    CASE endswith(lower(file_name), <<"p", "d", "f">>) -> "pdf"
      [] endswith(lower(file_name), <<"p", "p", "t", "x">>) -> "pptx"
      [] endswith(lower(file_name), <<"d", "o", "c", "x">>) -> "docx"
      [] endswith(lower(file_name), <<"x", "l", "s", "x">>) -> "xlsx"
      [] OTHER -> "unsupported"

\* ------------------------------------------------------------------ inputs
T_guia == <<"iacute", " ", "a", ".", "p", "d", "f">>
T_plain == <<"i", "_", "a", ".", "p", "d", "f">>
T_txt == <<"b", ".", "t", "x", "t">>
T_xlsx == <<"c", ".", "X", "L", "S", "X">>
T_apdf == <<"a", "p", "d", "f">>

\* descriptors the add_resource endpoint is called with
Events ==
    { [RecursoDidacticoId |-> "R1", TituloRecurso |-> T_guia, DriveId |-> "D1"],
      [RecursoDidacticoId |-> "R2", TituloRecurso |-> T_plain, DriveId |-> "D2"],
      [RecursoDidacticoId |-> "R1", TituloRecurso |-> T_guia, DriveId |-> "D3"],
      [RecursoDidacticoId |-> "R2", TituloRecurso |-> T_txt, DriveId |-> "D3"],
      [RecursoDidacticoId |-> "R2", TituloRecurso |-> T_xlsx, DriveId |-> "D1"],
      [RecursoDidacticoId |-> "R1", TituloRecurso |-> T_apdf, DriveId |-> "D2"] }

NoEvent == [RecursoDidacticoId |-> None, TituloRecurso |-> <<>>, DriveId |-> None]

FileNames == {sanitize_filename(e.TituloRecurso) : e \in Events}

\* rows (SilaboEventoId, UnidadAprendizajeId, SesionAprendizajeId,
\* RecursoDidacticoId) the SQL Server queries can return
SqlRows == { <<1, 0, 0, "R1">>, <<1, 10, 20, "R2">> }

\* rows (silabus_id, resource_id) save_to_library_dynamodb is called with
LibraryRows == { <<>>, << <<1, "R1">> >>, << <<1, "R1">>, <<1, "R2">> >> }

\* sha256 of the file bytes: deterministic and collision free on Contents
generate_file_hash(bytes) == IF bytes = "A" THEN "sha256_A" ELSE "sha256_B"

Hashes == {generate_file_hash(c) : c \in Contents}

\* number of chunks the loaders and the text splitter produce for a file
NumChunks(bytes) == IF bytes = "B" THEN 2 ELSE 1

MaxChunks == NumChunks("B")

\* vector ids (uuid4 values) MaxOps requests can consume
MaxIds == MaxChunks * MaxOps

\* ------------------------------------------------------------------- state
IngestWorkers == {"i1", "i2"}
DeleteWorkers == {"d1"}
LibraryWorkers == {"l1", "l2"}

VARIABLES
    files_table,   \* resource_id -> NoItem or [present, file_hash, s3_path, pinecone_ids]
    hash_table,    \* file_hash -> NoItem or [s3_path]
    index,         \* set of vectors [id, resource_id, file_hash]
    nextId,        \* next value uuid4() returns
    downloads,     \* file name -> bytes or NoFile (folder ./downloads)
    s3,            \* object name -> bytes or NoFile
    library,       \* silabus_id -> NoItem or sequence of resource ids
    local_rows,    \* rows of recursos_didacticos
    ing,           \* per ingest worker: position and locals of process_event
    del,           \* per delete worker: position and locals of delete_resource
    faults,        \* calls that raised so far
    ops,           \* requests started so far
    serial,        \* TRUE: one server process, requests run one after the other
    pre,           \* the ledger stores and the bucket when the running request started
    response,      \* the APIResponse the last finished endpoint call returned
    query,         \* arguments, filter and return value of query_pinecone
    call,          \* arguments and return value of a helper function applied on its own
    chat,          \* DynamoDB chat history table: (ALUMNO_ID, DATE_TIME) -> NoTurn or item
    rem            \* per library worker: position and locals of remove_resource_from_library

vars == <<files_table, hash_table, index, nextId, downloads, s3, library,
          local_rows, ing, del, faults, ops, serial, pre, response, query,
          call, chat, rem>>

stores == <<files_table, hash_table, index>>

IngIdle ==
    [pc |-> "idle", event |-> NoEvent, file_name |-> <<>>, file_hash |-> None,
     result |-> None, pinecone_ids |-> <<>>, uuids |-> <<>>,
     embed_called |-> FALSE, caught |-> FALSE, error |-> FALSE]

DelIdle ==
    [pc |-> "idle", resource_id |-> None, file_hash |-> None,
     pinecone_ids |-> NoneIds, outcome |-> None, window |-> FALSE]

\* the key schema of the chat history table: partition key ALUMNO_ID, sort
\* key DATE_TIME (the keys delete_messages hands to update_item)
ChatKeys == [ALUMNO_ID : Users, DATE_TIME : 1..MaxTime]

RemIdle ==
    [pc |-> "idle", silabus_id |-> None, resource_id |-> None,
     resources |-> <<>>, outcome |-> None]

InitStores ==
    /\ files_table = [r \in Rids |-> NoItem]
    /\ hash_table = [h \in Hashes |-> NoItem]
    /\ index = {}
    /\ nextId = 1
    /\ downloads = [f \in FileNames |-> NoFile]
    /\ s3 = [f \in FileNames |-> NoFile]
    /\ library = [s \in Silabos |-> NoItem]
    /\ local_rows = {}
    /\ ing = [p \in IngestWorkers |-> IngIdle]
    /\ del = [d \in DeleteWorkers |-> DelIdle]
    /\ faults = 0
    /\ ops = 0
    /\ pre = NoSnap
    /\ response = NoResponse
    /\ chat = [k \in ChatKeys |-> NoTurn]
    /\ rem = [w \in LibraryWorkers |-> RemIdle]

\* several server processes share the stores and the download folder
Init == InitStores /\ serial = FALSE /\ query = NoQuery /\ call = NoCall

\* the deployment of api.py's __main__: uvicorn runs one process and every
\* endpoint is an async def that calls the blocking pipeline without
\* awaiting, so a request runs to its end before the next one starts
InitSeq == InitStores /\ serial = TRUE /\ query = NoQuery /\ call = NoCall

InFlight == {p \in IngestWorkers : ing[p].pc # "idle"}
             \cup {d \in DeleteWorkers : del[d].pc # "idle"}
             \cup {w \in LibraryWorkers : rem[w].pc # "idle"}

\* the request budget: MaxOps requests, overlapping ones among the first MaxOverlap
MayStart == ops < MaxOps /\ (InFlight # {} => ~serial /\ ops < MaxOverlap)

\* a call to an external service may raise, at most MaxFaults times
CanFault == faults < MaxFaults

\* snapshot taken when a request starts while no other request is running
Snapshot == IF InFlight = {} THEN [taken |-> TRUE, files |-> files_table,
                                   hashes |-> hash_table, vectors |-> index,
                                   objects |-> s3]
            ELSE NoSnap

\* ------------------------------------------------- process_event (ingest)
\* the except clause of process_event: log and fall through to the return
Raise(p) == ing' = [ing EXCEPT ![p].pc = "done", ![p].error = TRUE]

BeginIngest(p, e) ==
    /\ ing[p].pc = "idle"
    /\ MayStart
    /\ ops' = ops + 1
    /\ ing' = [ing EXCEPT ![p] = [IngIdle EXCEPT
                 !.pc = "download", !.event = e,
                 !.file_name = sanitize_filename(e.TituloRecurso)]]
    /\ pre' = Snapshot
    /\ UNCHANGED <<chat, rem, call, query, response, files_table, hash_table, index, nextId, downloads, s3,
                   library, local_rows, del, faults, serial>>

\* the failed request taken for a download: the run goes on to the hash
DownloadPartial(p) ==
    /\ ing[p].pc = "download"
    /\ \/ /\ downloads' = [downloads EXCEPT ![ing[p].file_name] =
                              DriveContent(ing[p].event.DriveId)]
          /\ ing' = [ing EXCEPT ![p].pc = "hash"]
          /\ UNCHANGED faults
       \/ /\ CanFault
          /\ faults' = faults + 1
          /\ downloads' = [downloads EXCEPT ![ing[p].file_name] =
                              DriveContent(ing[p].event.DriveId)]
          /\ ing' = [ing EXCEPT ![p].pc = "hash"]
    /\ UNCHANGED <<chat, rem, call, query, response, files_table, hash_table, index, nextId, s3, library,
                   local_rows, del, pre, ops, serial>>

\* download_file_from_gdrive: requests.get and raise_for_status, then the
\* file is written; a failure raises into process_event's except clause
Download(p) ==
    /\ ing[p].pc = "download"
    /\ \/ /\ downloads' = [downloads EXCEPT ![ing[p].file_name] =
                              DriveContent(ing[p].event.DriveId)]
          /\ ing' = [ing EXCEPT ![p].pc = "hash"]
          /\ UNCHANGED faults
       \/ /\ CanFault
          /\ faults' = faults + 1
          /\ Raise(p)
          /\ UNCHANGED downloads
    /\ UNCHANGED <<chat, rem, call, query, response, files_table, hash_table, index, nextId, s3, library,
                   local_rows, del, pre, ops, serial>>

\* generate_file_hash(file_path)
Hash(p) ==
    /\ ing[p].pc = "hash"
    /\ IF downloads[ing[p].file_name] = NoFile
       THEN Raise(p)
       ELSE ing' = [ing EXCEPT ![p].pc = "s3",
                      ![p].file_hash = generate_file_hash(downloads[ing[p].file_name])]
    /\ UNCHANGED <<chat, rem, call, query, response, files_table, hash_table, index, nextId, downloads, s3,
                   library, local_rows, del, faults, pre, ops, serial>>

\* upload_to_s3(file_path, bucket_name, file_name)
UploadS3(p) ==
    /\ ing[p].pc = "s3"
    /\ IF downloads[ing[p].file_name] = NoFile
       THEN /\ Raise(p)
            /\ UNCHANGED <<s3, faults>>
       ELSE \/ /\ s3' = [s3 EXCEPT ![ing[p].file_name] = downloads[ing[p].file_name]]
               /\ ing' = [ing EXCEPT ![p].pc = "get_hash"]
               /\ UNCHANGED faults
            \/ /\ CanFault
               /\ faults' = faults + 1
               /\ Raise(p)
               /\ UNCHANGED s3
    /\ UNCHANGED <<chat, rem, call, query, response, files_table, hash_table, index, nextId, downloads, library,
                   local_rows, del, pre, ops, serial>>

\* the duplicate check left out: every hash is taken as new
HashKnownNever(ht, h) == FALSE

\* upload_to_dynamodb: 'Item' in response of hash_table.get_item
HashKnown(ht, h) == ht[h].present

\* update_item moved out of the branch: a rejected run goes on to it
AfterRegisterUpdate(result) == IF result THEN "process" ELSE "update"

\* process_event, "if result:": the loaders and update_item run when
\* upload_to_dynamodb returned True, otherwise os.remove is next
AfterRegister(result) == IF result THEN "process" ELSE "remove"

\* the branch on the result left out: a known hash goes on to the loaders
GetHashUngated(p) ==
    /\ ing[p].pc = "get_hash"
    /\ IF HashKnown(hash_table, ing[p].file_hash)
       THEN ing' = [ing EXCEPT ![p].pc = "process", ![p].result = "False"]
       ELSE ing' = [ing EXCEPT ![p].pc = "put_hash"]
    /\ UNCHANGED <<chat, rem, call, query, response, files_table, hash_table, index, nextId, downloads, s3,
                   library, local_rows, del, faults, pre, ops, serial>>

\* upload_to_dynamodb, the get_item on the hash table and the branch on it
GetHash(p) ==
    /\ ing[p].pc = "get_hash"
    /\ IF HashKnown(hash_table, ing[p].file_hash)
       THEN ing' = [ing EXCEPT ![p].pc = AfterRegister(FALSE), ![p].result = "False"]
       ELSE ing' = [ing EXCEPT ![p].pc = "put_hash"]
    /\ UNCHANGED <<chat, rem, call, query, response, files_table, hash_table, index, nextId, downloads, s3,
                   library, local_rows, del, faults, pre, ops, serial>>

\* upload_to_dynamodb, hash_table.put_item
PutHash(p) ==
    /\ ing[p].pc = "put_hash"
    /\ \/ /\ hash_table' = [hash_table EXCEPT ![ing[p].file_hash] =
                              [present |-> TRUE, s3_path |-> ing[p].file_name]]
          /\ ing' = [ing EXCEPT ![p].pc = "put_file"]
          /\ UNCHANGED faults
       \/ /\ CanFault
          /\ faults' = faults + 1
          /\ Raise(p)
          /\ UNCHANGED hash_table
    /\ UNCHANGED <<chat, rem, call, query, response, files_table, index, nextId, downloads, s3, library,
                   local_rows, del, pre, ops, serial>>

\* the dynamodb_item process_event builds (resource_title and drive_id, which
\* no operation reads back, are left out; s3_path is the object name)
DynamoItem(p) ==
    [present |-> TRUE, file_hash |-> ing[p].file_hash,
     s3_path |-> ing[p].file_name, pinecone_ids |-> <<>>]

\* upload_to_dynamodb, files_table.put_item and return True
PutFile(p) ==
    /\ ing[p].pc = "put_file"
    /\ \/ /\ files_table' = [files_table EXCEPT
                               ![ing[p].event.RecursoDidacticoId] = DynamoItem(p)]
          /\ ing' = [ing EXCEPT ![p].pc = AfterRegister(TRUE), ![p].result = "True"]
          /\ UNCHANGED faults
       \/ /\ CanFault
          /\ faults' = faults + 1
          /\ Raise(p)
          /\ UNCHANGED files_table
    /\ UNCHANGED <<chat, rem, call, query, response, hash_table, index, nextId, downloads, s3, library,
                   local_rows, del, pre, ops, serial>>

\* the uuids list handed over in reverse
UuidsReversed(n) == [i \in 1..n |-> nextId + n - i]

\* add_to_pinecone: the uuids list, one uuid4() per document
Uuids(n) == [i \in 1..n |-> nextId + i - 1]

\* the vectors vector_store.add_documents writes for the first k documents:
\* document i (chunk i of the file) is stored under the i-th id, and every
\* document carries the dynamodb_item as metadata
Upserted(p, k) ==
    { [id |-> nextId + i - 1,
       chunk |-> i,
       resource_id |-> ing[p].event.RecursoDidacticoId,
       file_hash |-> ing[p].file_hash] : i \in 1..k }

\* process_resource_pdf / _pptx / _docx: load, split, add_to_pinecone.
\* An exception (missing file, embedding or upsert failure) propagates to
\* process_event; a failed add_documents may have written some vectors.
ProcessPlain(p) ==
    /\ ing[p].pc = "process"
    /\ FileType(ing[p].file_name) \in {"pdf", "pptx", "docx"}
    /\ IF downloads[ing[p].file_name] = NoFile
       THEN /\ Raise(p)
            /\ UNCHANGED <<index, nextId, faults>>
       ELSE LET n == NumChunks(downloads[ing[p].file_name]) IN
            /\ nextId + n - 1 <= MaxIds
            /\ nextId' = nextId + n
            /\ \/ /\ index' = index \cup Upserted(p, n)
                  /\ ing' = [ing EXCEPT ![p].pc = "update",
                               ![p].pinecone_ids = Uuids(n),
                               ![p].uuids = Uuids(n),
                               ![p].embed_called = TRUE]
                  /\ UNCHANGED faults
               \/ /\ CanFault
                  /\ faults' = faults + 1
                  /\ \E k \in 0..n : index' = index \cup Upserted(p, k)
                  /\ ing' = [ing EXCEPT ![p].pc = "done", ![p].error = TRUE,
                               ![p].uuids = Uuids(n),
                               ![p].embed_called = TRUE]
    /\ UNCHANGED <<chat, rem, call, query, response, files_table, hash_table, downloads, s3, library, local_rows,
                   del, pre, ops, serial>>

\* the ids of the k documents that were written before the failure returned
\* in place of the empty list
XlsxExceptPartial(uuids, k) == SubSeq(uuids, 1, k)

\* process_resource_xlsx, the except clause: log and return [], whatever
\* uuids were generated and however many documents were written
XlsxExcept(uuids, k) == <<>>

\* process_resource_xlsx: as above, but every exception is caught and the
\* function returns []
ProcessXlsx(p) ==
    /\ ing[p].pc = "process"
    /\ FileType(ing[p].file_name) = "xlsx"
    /\ IF downloads[ing[p].file_name] = NoFile
       THEN /\ ing' = [ing EXCEPT ![p].pc = "update", ![p].pinecone_ids = <<>>,
                                   ![p].caught = TRUE]
            /\ UNCHANGED <<index, nextId, faults>>
       ELSE LET n == NumChunks(downloads[ing[p].file_name]) IN
            /\ nextId + n - 1 <= MaxIds
            /\ nextId' = nextId + n
            /\ \/ /\ index' = index \cup Upserted(p, n)
                  /\ ing' = [ing EXCEPT ![p].pc = "update",
                               ![p].pinecone_ids = Uuids(n),
                               ![p].uuids = Uuids(n),
                               ![p].embed_called = TRUE]
                  /\ UNCHANGED faults
               \/ /\ CanFault
                  /\ faults' = faults + 1
                  /\ \E k \in 0..n :
                        /\ index' = index \cup Upserted(p, k)
                        /\ ing' = [ing EXCEPT ![p].pc = "update",
                                     ![p].pinecone_ids = XlsxExcept(Uuids(n), k),
                                     ![p].uuids = Uuids(n),
                                     ![p].embed_called = TRUE,
                                     ![p].caught = TRUE]
    /\ UNCHANGED <<chat, rem, call, query, response, files_table, hash_table, downloads, s3, library, local_rows,
                   del, pre, ops, serial>>

\* the else branch of the dispatch: warning, pinecone_ids stays []
ProcessUnsupported(p) ==
    /\ ing[p].pc = "process"
    /\ FileType(ing[p].file_name) = "unsupported"
    /\ ing' = [ing EXCEPT ![p].pc = "update", ![p].pinecone_ids = <<>>]
    /\ UNCHANGED <<chat, rem, call, query, response, files_table, hash_table, index, nextId, downloads, s3,
                   library, local_rows, del, faults, pre, ops, serial>>

\* DynamoDB update_item "SET pinecone_ids = :ids": creates the item when the
\* key is absent
UpdateItem(ft, rid, ids) ==
    IF ~ft[rid].present
    THEN [ft EXCEPT ![rid] = [present |-> TRUE, file_hash |-> None,
                              s3_path |-> NoPath, pinecone_ids |-> ids]]
    ELSE [ft EXCEPT ![rid].pinecone_ids = ids]

\* process_event, files_table.update_item
Update(p) ==
    /\ ing[p].pc = "update"
    /\ \/ /\ files_table' = UpdateItem(files_table,
                                       ing[p].event.RecursoDidacticoId,
                                       ing[p].pinecone_ids)
          /\ ing' = [ing EXCEPT ![p].pc = "remove"]
          /\ UNCHANGED faults
       \/ /\ CanFault
          /\ faults' = faults + 1
          /\ Raise(p)
          /\ UNCHANGED files_table
    /\ UNCHANGED <<chat, rem, call, query, response, hash_table, index, nextId, downloads, s3, library,
                   local_rows, del, pre, ops, serial>>

\* process_event, os.remove(file_path)
Remove(p) ==
    /\ ing[p].pc = "remove"
    /\ IF downloads[ing[p].file_name] = NoFile
       THEN /\ Raise(p)
            /\ UNCHANGED downloads
       ELSE /\ downloads' = [downloads EXCEPT ![ing[p].file_name] = NoFile]
            /\ ing' = [ing EXCEPT ![p].pc = "done"]
    /\ UNCHANGED <<chat, rem, call, query, response, files_table, hash_table, index, nextId, s3, library,
                   local_rows, del, faults, pre, ops, serial>>

\* add_resource endpoint: process_event returned (it returns None on every
\* path), the response is built and sent
ReturnIngest(p) ==
    /\ ing[p].pc = "done"
    /\ ing' = [ing EXCEPT ![p] = IngIdle]
    /\ pre' = NoSnap
    /\ response' = APIResponse(TRUE, "Recurso agregado exitosamente")
    /\ UNCHANGED <<chat, rem, call, query, files_table, hash_table, index, nextId, downloads, s3,
                   library, local_rows, del, faults, ops, serial>>

\* --------------------------------------------- delete_resource (removal)
\* delete_resource: "if not item" on the get_item response
ItemFound(item) == item.present

\* delete_resource line 98 reads pinecone_ids from the get_item response,
\* whose keys are Item and ResponseMetadata, so .get returns None whatever
\* the record holds
ResponsePineconeIds(item) == NoneIds

\* Pinecone index.delete(ids=...): removes the listed vectors; a request
\* without ids removes nothing
IndexDelete(idx, ids) ==
    IF ids = NoneIds THEN idx
    ELSE {v \in idx : \A i \in 1..Len(ids) : ids[i] # v.id}

\* the except clause of delete_resource
RaiseDel(d) == del' = [del EXCEPT ![d].pc = "done", ![d].outcome = "failed"]

BeginDelete(d, rid) ==
    /\ del[d].pc = "idle"
    /\ MayStart
    /\ ops' = ops + 1
    /\ del' = [del EXCEPT ![d] = [DelIdle EXCEPT !.pc = "get", !.resource_id = rid]]
    /\ pre' = Snapshot
    /\ UNCHANGED <<chat, rem, call, query, response, files_table, hash_table, index, nextId, downloads, s3,
                   library, local_rows, ing, faults, serial>>

\* an ingestion of resource rid is between its register (upload_to_dynamodb
\* returned True) and its update_item; recorded for the removal that runs
\* meanwhile
InWindow(rid) ==
    \E p \in IngestWorkers :
        /\ ing[p].event.RecursoDidacticoId = rid
        /\ ing[p].result = "True"
        /\ ing[p].pc \in {"process", "update"}

\* the response indexed with ['Item'] instead of .get('Item'): a missing
\* record raises KeyError, which the except clause turns into the failure return
GetItemKeyError(d) ==
    /\ del[d].pc = "get"
    /\ LET item == files_table[del[d].resource_id] IN
       IF ItemFound(item)
       THEN del' = [del EXCEPT ![d].pc = "del_hash",
                      ![d].file_hash = item.file_hash,
                      ![d].pinecone_ids = ResponsePineconeIds(item),
                      ![d].window = InWindow(del[d].resource_id)]
       ELSE RaiseDel(d)
    /\ UNCHANGED <<chat, rem, call, query, response, files_table, hash_table, index, nextId, downloads, s3,
                   library, local_rows, ing, faults, pre, ops, serial>>

\* files_table.get_item and the not-found return
GetItem(d) ==
    /\ del[d].pc = "get"
    /\ LET item == files_table[del[d].resource_id] IN
       IF ItemFound(item)
       THEN del' = [del EXCEPT ![d].pc = "del_hash",
                      ![d].file_hash = item.file_hash,
                      ![d].pinecone_ids = ResponsePineconeIds(item),
                      ![d].window = InWindow(del[d].resource_id)]
       ELSE del' = [del EXCEPT ![d].pc = "done", ![d].outcome = "notfound"]
    /\ UNCHANGED <<chat, rem, call, query, response, files_table, hash_table, index, nextId, downloads, s3,
                   library, local_rows, ing, faults, pre, ops, serial>>

\* every entry of the hash table deleted, not only the one under the key
HashDeleteAll(ht, h) == [x \in DOMAIN ht |-> NoItem]

\* hash_table.delete_item(Key={'file_hash': file_hash})
HashDelete(ht, h) == [ht EXCEPT ![h] = NoItem]

\* hash_table.delete_item; a None key value is rejected by DynamoDB
DeleteHash(d) ==
    /\ del[d].pc = "del_hash"
    /\ IF del[d].file_hash = None
       THEN /\ RaiseDel(d)
            /\ UNCHANGED <<hash_table, faults>>
       ELSE \/ /\ hash_table' = HashDelete(hash_table, del[d].file_hash)
               /\ del' = [del EXCEPT ![d].pc = "del_vectors"]
               /\ UNCHANGED faults
            \/ /\ CanFault
               /\ faults' = faults + 1
               /\ RaiseDel(d)
               /\ UNCHANGED hash_table
    /\ UNCHANGED <<chat, rem, call, query, response, files_table, index, nextId, downloads, s3, library,
                   local_rows, ing, pre, ops, serial>>

\* index.delete(ids = pinecone_ids).  With ids = None the request names no
\* vectors: the index either rejects it (the call raises) or accepts it and
\* deletes nothing; both outcomes are kept.
DeleteVectors(d) ==
    /\ del[d].pc = "del_vectors"
    /\ \/ /\ index' = IndexDelete(index, del[d].pinecone_ids)
          /\ del' = [del EXCEPT ![d].pc = "del_file"]
          /\ UNCHANGED faults
       \/ /\ del[d].pinecone_ids = NoneIds
          /\ RaiseDel(d)
          /\ UNCHANGED <<index, faults>>
       \/ /\ del[d].pinecone_ids # NoneIds
          /\ CanFault
          /\ faults' = faults + 1
          /\ RaiseDel(d)
          /\ UNCHANGED index
    /\ UNCHANGED <<chat, rem, call, query, response, files_table, hash_table, nextId, downloads, s3, library,
                   local_rows, ing, pre, ops, serial>>

\* files_table.delete_item, then the function ends (returns None)
DeleteFile(d) ==
    /\ del[d].pc = "del_file"
    /\ \/ /\ files_table' = [files_table EXCEPT ![del[d].resource_id] = NoItem]
          /\ del' = [del EXCEPT ![d].pc = "done", ![d].outcome = "removed",
                                 ![d].window = del[d].window
                                               /\ InWindow(del[d].resource_id)]
          /\ UNCHANGED faults
       \/ /\ CanFault
          /\ faults' = faults + 1
          /\ RaiseDel(d)
          /\ UNCHANGED files_table
    /\ UNCHANGED <<chat, rem, call, query, response, hash_table, index, nextId, downloads, s3, library,
                   local_rows, ing, pre, ops, serial>>

\* delete_resource_endpoint: delete_resource returned (its return value is
\* dropped), the response is built and sent
ReturnDelete(d) ==
    /\ del[d].pc = "done"
    /\ del' = [del EXCEPT ![d] = DelIdle]
    /\ pre' = NoSnap
    /\ response' = APIResponse(TRUE, "Recurso eliminado exitosamente")
    /\ UNCHANGED <<chat, rem, call, query, files_table, hash_table, index, nextId, downloads, s3,
                   library, local_rows, ing, faults, ops, serial>>


\* ----------------------------------- the two removal implementations
\* the record of resource r in a starting state: absent, or present with
\* or without file_hash and with or without its vector id
StartRecords(r) ==
    {NoItem}
    \cup [present : {TRUE},
          file_hash : {generate_file_hash(IF r = "R1" THEN "A" ELSE "B")},
          s3_path : {T_plain}, pinecone_ids : {<<>>, <<IF r = "R1" THEN 1 ELSE 2>>}]
    \cup [present : {TRUE}, file_hash : {None}, s3_path : {NoPath},
          pinecone_ids : {<<>>, <<IF r = "R1" THEN 1 ELSE 2>>}]

\* the vectors a starting state can hold: one of R1, one of R2
StartVectors ==
    {[id |-> 1, chunk |-> 1, resource_id |-> "R1", file_hash |-> "sha256_A"],
     [id |-> 2, chunk |-> 1, resource_id |-> "R2", file_hash |-> "sha256_B"]}

\* starting states of the resource table, the hash table and the index
StartStores ==
    {[files |-> [r \in Rids |-> f[r]],
      hashes |-> [h \in Hashes |-> IF h \in hs
                                   THEN [present |-> TRUE, s3_path |-> T_plain]
                                   ELSE NoItem],
      vectors |-> vs] :
        f \in {g \in [Rids -> UNION {StartRecords(r) : r \in Rids}] :
                  \A r \in Rids : g[r] \in StartRecords(r)},
        hs \in SUBSET Hashes, vs \in SUBSET StartVectors}

\* documents_load.delete_resource run on its own from the stores st, no
\* store being out of reach; accepts tells whether the index takes a delete
\* request with ids=None (and deletes nothing) or rejects it
DeleteResourceRun(st, rid, accepts) ==
    LET item == st.files[rid] IN
    IF ~ItemFound(item) THEN st
    ELSE IF item.file_hash = None THEN st
    ELSE LET hashed == [st EXCEPT !.hashes = HashDelete(st.hashes, item.file_hash)]
             ids == ResponsePineconeIds(item)
         IN IF ids = NoneIds /\ ~accepts THEN hashed
            ELSE [hashed EXCEPT !.vectors = IndexDelete(st.vectors, ids),
                                !.files = [st.files EXCEPT ![rid] = NoItem]]

\* dynamodb_utils.py imports boto3, datetime, os and dotenv; the name
\* logging is not bound in the module
LoggingDefined == FALSE

\* DYNAMODB_RESOURCES.delete_resource_and_vectors run on its own from the
\* stores st.  Both paths call logging.info before any delete; with the name
\* unbound the call raises NameError, and so does logging.error in the
\* except clause: the function ends with the stores untouched.
DeleteResourceAndVectors(st, rid) ==
    LET item == st.files[rid] IN
    IF ~ItemFound(item) THEN st
    ELSE IF ~LoggingDefined THEN st
    ELSE IF item.file_hash = None THEN st
    ELSE LET hashed == [st EXCEPT !.hashes = HashDelete(st.hashes, item.file_hash)]
             ids == item.pinecone_ids
         IN [hashed EXCEPT
               !.vectors = IF ids # <<>> THEN IndexDelete(st.vectors, ids)
                           ELSE st.vectors,
               !.files = [st.files EXCEPT ![rid] = NoItem]]

CompareCalls ==
    [pc : {"called"}, fn : {"compare"}, start : StartStores, resource_id : Rids,
     by_delete_resource : {NoSnap}, by_delete_resource_and_vectors : {NoSnap}]

\* both removal functions applied to the same starting state
CompareRemovals ==
    /\ call.pc = "called"
    /\ call.fn = "compare"
    /\ \E accepts \in BOOLEAN :
          call' = [call EXCEPT
                     !.pc = "returned",
                     !.by_delete_resource =
                         DeleteResourceRun(call.start, call.resource_id, accepts),
                     !.by_delete_resource_and_vectors =
                         DeleteResourceAndVectors(call.start, call.resource_id)]
    /\ UNCHANGED <<chat, rem, files_table, hash_table, index, nextId, downloads, s3,
                   library, local_rows, ing, del, faults, ops, serial, pre,
                   response, query>>

\* ------------------------------------------------- membership (library)
\* SQLServerToSQLite.run(id_silabus): empty the local table (all of it, or
\* the rows of one syllabus), fetch, and when rows came back insert them.
\* fetch_data_from_sql_server returns [] when the connection fails.
\* The call that follows save_to_local_db names a method DYNAMODB_LIBRARY
\* does not have, so run() ends there and the library table is not written.
Run(id_silabus, data) ==
    /\ InFlight = {}
    /\ MayStart
    /\ ops' = ops + 1
    /\ LET kept == IF id_silabus = 0 THEN {}
                   ELSE {r \in local_rows : r[1] # id_silabus}
       IN local_rows' = kept \cup data
    /\ UNCHANGED <<chat, rem, call, query, response, files_table, hash_table, index, nextId, downloads, s3,
                   library, ing, del, faults, pre, serial>>

\* the resources list save_to_library_dynamodb groups for one syllabus
RECURSIVE Grouped(_, _)
Grouped(rows, sid) ==
    IF rows = <<>> THEN <<>>
    ELSE (IF Str(Head(rows)[1]) = sid THEN <<Head(rows)[2]>> ELSE <<>>)
         \o Grouped(Tail(rows), sid)

\* DYNAMODB_LIBRARY.save_to_library_dynamodb(rows): one put_item per
\* syllabus that occurs in rows
SaveToLibrary(rows) ==
    /\ InFlight = {}
    /\ MayStart
    /\ ops' = ops + 1
    /\ library' = [s \in Silabos |->
                     IF Grouped(rows, s) # <<>>
                     THEN [present |-> TRUE, resources |-> Grouped(rows, s)]
                     ELSE library[s]]
    /\ UNCHANGED <<chat, rem, call, query, response, files_table, hash_table, index, nextId, downloads, s3,
                   local_rows, ing, del, faults, pre, serial>>

\* updated_resources = [r for r in resources if r['resource_id'] != resource_id]
RECURSIVE Without(_, _)
Without(resources, rid) ==
    IF resources = <<>> THEN <<>>
    ELSE (IF Head(resources) # rid THEN <<Head(resources)>> ELSE <<>>)
         \o Without(Tail(resources), rid)

\* a caller starts remove_resource_from_library(silabus_id, resource_id);
\* calls of several processes may overlap
BeginRemoveFromLibrary(w, sid, rid) ==
    /\ rem[w].pc = "idle"
    /\ ops < MaxOps
    /\ InFlight # {} => ~serial
    /\ ops' = ops + 1
    /\ rem' = [rem EXCEPT ![w] = [RemIdle EXCEPT !.pc = "get", !.silabus_id = sid,
                                                 !.resource_id = rid]]
    /\ UNCHANGED <<chat, call, query, response, files_table, hash_table, index,
                   nextId, downloads, s3, library, local_rows, ing, del, faults,
                   serial, pre>>

\* remove_resource_from_library, table.get_item and the test on 'Item'.
\* logging is not bound in dynamodb_utils.py: on the not-found path
\* logging.warning raises NameError, and logging.error in the except clause
\* raises it again, so the call ends with NameError.
GetLibraryItem(w) ==
    /\ rem[w].pc = "get"
    /\ LET item == library[rem[w].silabus_id] IN
       IF item.present
       THEN rem' = [rem EXCEPT ![w].pc = "update", ![w].resources = item.resources]
       ELSE rem' = [rem EXCEPT ![w].pc = "done", ![w].outcome = "NameError"]
    /\ UNCHANGED <<chat, call, query, response, files_table, hash_table, index,
                   nextId, downloads, s3, library, local_rows, ing, del, faults,
                   ops, serial, pre>>

\* remove_resource_from_library, table.update_item "SET resources = :res"
\* with the list computed from the item read before; the logging.info that
\* follows ends the call with NameError
UpdateLibraryItem(w) ==
    /\ rem[w].pc = "update"
    /\ library' = [library EXCEPT ![rem[w].silabus_id] =
                      [present |-> TRUE,
                       resources |-> Without(rem[w].resources, rem[w].resource_id)]]
    /\ rem' = [rem EXCEPT ![w].pc = "done", ![w].outcome = "NameError"]
    /\ UNCHANGED <<chat, call, query, response, files_table, hash_table, index,
                   nextId, downloads, s3, local_rows, ing, del, faults, ops,
                   serial, pre>>

\* the call has ended and its caller goes on
ReturnRemoveFromLibrary(w) ==
    /\ rem[w].pc = "done"
    /\ rem' = [rem EXCEPT ![w] = RemIdle]
    /\ UNCHANGED <<chat, call, query, response, files_table, hash_table, index,
                   nextId, downloads, s3, library, local_rows, ing, del, faults,
                   ops, serial, pre>>

\* resource ids some membership set refers to
LibraryMembers ==
    {r \in Rids : \E s \in Silabos :
        /\ library[s].present
        /\ \E i \in 1..Len(library[s].resources) : library[s].resources[i] = r}

LocalMembers == {r[4] : r \in local_rows}

\* ------------------------------------------- query_pinecone (retrieval)
\* scores and the threshold are kept in hundredths
Scores == {70, 75, 81}

\* values of PINECONE_MIN_THRESHOLD (default 0.75)
Thresholds == {70, 75, 81}

\* the 'text' metadata of a stored chunk
Texts == { <<"a">>, <<"a", "\n", "b">>, <<"a", " ", " ", " ", "b">> }

\* the default of metadata.get("text", "no hay datos")
NoHayDatos == <<"n", "o", " ", "h", "a", "y", " ", "d", "a", "t", "o", "s">>

\* a match of the query response: its score and whether its metadata has 'text'
Matches ==
    [score : Scores, has_text : {TRUE}, text : Texts]
    \cup [score : Scores, has_text : {FALSE}, text : {<<>>}]

\* the index returns its matches ranked, best score first
Ranked(ms) == \A i \in 1..(Len(ms) - 1) : ms[i].score >= ms[i + 1].score

MatchLists ==
    {ms \in UNION {[1..n -> Matches] : n \in 0..MaxMatches} : Ranked(ms)}

\* argument syllabus_event_id: None or an id
ScopeArgs == {[given |-> FALSE, value |-> 0]} \cup [given : {TRUE}, value : SilaboIds]

\* argument data: None, or a list of rows of recursos_didacticos
DataArgs ==
    {[given |-> FALSE, rows |-> <<>>]}
    \cup [given : {TRUE},
          rows : {rs \in UNION {[1..n -> SqlRows] : n \in 0..2} :
                     \A i, j \in 1..Len(rs) : i # j => rs[i] # rs[j]}]

\* the calls query_pinecone can receive
Queries ==
    {[NoQuery EXCEPT !.pc = "called", !.syllabus_event_id = sid, !.data = data,
                     !.results = ms, !.threshold = t] :
        sid \in ScopeArgs, data \in DataArgs, ms \in MatchLists, t \in Thresholds}

\* Python str() of an integer column
str(n) == ToString(n)

\* "if data:" -- None and the empty list are both false
Truthy(data) == data.given /\ data.rows # <<>>

\* resource_ids = [str(item[2]) for item in data]; Python counts the columns
\* from 0, so item[2] is the third column of the row
ResourceIds(data) == [i \in 1..Len(data.rows) |-> str(data.rows[i][3])]

\* the dict filter_conditions after the two if statements
FilterConditions(syllabus_event_id, data) ==
    [has_syllabus_event_id |-> syllabus_event_id.given,
     syllabus_event_id |-> syllabus_event_id.value,
     has_resource_id |-> Truthy(data),
     resource_id_in |-> IF Truthy(data) THEN ResourceIds(data) ELSE <<>>]

\* filter=filter_conditions if filter_conditions else None
FilterSent(fc) ==
    IF fc.has_syllabus_event_id \/ fc.has_resource_id THEN fc ELSE NoFilter

\* the comparison turned round
PassesBelow(score, threshold) == score <= threshold

\* result["score"] >= PINECONE_MIN_THRESHOLD
Passes(score, threshold) == score >= threshold

\* str(result["metadata"].get("text", "no hay datos"))
DocumentContent(result) == IF result.has_text THEN result.text ELSE NoHayDatos

\* the newlines of the text left in place
KeepNewlines(s) == s

\* .replace("\n", " ")
ReplaceNewlines(s) == [i \in 1..Len(s) |-> IF s[i] = "\n" THEN " " ELSE s[i]]

\* .replace("  ", " "): one pass from the left over non-overlapping pairs
RECURSIVE ReplaceDoubleSpaces(_)
ReplaceDoubleSpaces(s) ==
    IF Len(s) < 2 THEN s
    ELSE IF s[1] = " " /\ s[2] = " "
         THEN <<" ">> \o ReplaceDoubleSpaces(SubSeq(s, 3, Len(s)))
         ELSE <<s[1]>> \o ReplaceDoubleSpaces(Tail(s))

\* a placeholder line in place of the empty string
RelevantDataPlaceholder == NoHayDatos \o <<"\n">>

\* relevant_data = "" before the loop
RelevantDataStart == <<>>

\* the loop over results that builds relevant_data (the entries are
\* appended; the recursion ends at the start value)
RECURSIVE RelevantData(_, _)
RelevantData(results, threshold) ==
    IF results = <<>> THEN RelevantDataStart
    ELSE (IF Passes(Head(results).score, threshold)
          THEN ReplaceDoubleSpaces(ReplaceNewlines(DocumentContent(Head(results))))
               \o <<"\n">>
          ELSE <<>>)
         \o RelevantData(Tail(results), threshold)

\* query_pinecone(embeddings, syllabus_event_id, data): build the filter,
\* query the index, keep the matches that reach the threshold
QueryPinecone ==
    /\ query.pc = "called"
    /\ query' = [query EXCEPT
                   !.pc = "returned",
                   !.filter = FilterSent(FilterConditions(query.syllabus_event_id,
                                                          query.data)),
                   !.relevant_data = RelevantData(query.results, query.threshold)]
    /\ UNCHANGED <<chat, rem, call, files_table, hash_table, index, nextId, downloads, s3,
                   library, local_rows, ing, del, faults, ops, serial, pre,
                   response>>

\* ------------------------------------- DYNAMODB_CHAT_HISTORY (chat log)
\* questions a user sends
Messages == {"q1", "q2"}

\* cant_items: 0, 1, and the default 100
HistoryLimits == {0, 1, 100}

\* the item upload_message builds (AI_MESSAGE, PROMPT and TTL, which no
\* operation of the class reads back, are left out)
Turn(silabo_id, user_msg) ==
    [present |-> TRUE, SILABUS_ID |-> silabo_id, USER_MESSAGE |-> user_msg,
     IS_DELETED |-> FALSE]

\* datetime.now() to the second: not before the time of any stored turn
Clock(table) ==
    LET times == {k.DATE_TIME : k \in {j \in ChatKeys : table[j].present}}
    IN IF times = {} THEN 1 ELSE CHOOSE t \in times : \A x \in times : x <= t

\* table.put_item(Item=item): the item replaces whatever is stored under
\* its key (ALUMNO_ID, DATE_TIME)
PutTurn(table, alumno_id, silabo_id, user_msg, t) ==
    [table EXCEPT ![[ALUMNO_ID |-> alumno_id, DATE_TIME |-> t]] =
                     Turn(silabo_id, user_msg)]

\* upload_message: put_item; an exception is printed and the call returns
UploadMessage(alumno_id, silabo_id, user_msg) ==
    /\ InFlight = {}
    /\ MayStart
    /\ ops' = ops + 1
    /\ \/ /\ \E t \in Clock(chat)..MaxTime :
                chat' = PutTurn(chat, alumno_id, silabo_id, user_msg, t)
          /\ UNCHANGED faults
       \/ /\ CanFault
          /\ faults' = faults + 1
          /\ UNCHANGED chat
    /\ UNCHANGED <<rem, call, query, response, files_table, hash_table, index,
                   nextId, downloads, s3, library, local_rows, ing, del, serial,
                   pre>>

\* FilterExpression of both queries
FilterMatches(item, silabo_id) ==
    item.SILABUS_ID = silabo_id /\ item.IS_DELETED = FALSE

\* table.query of get_message_history: the user's items newest first
\* (ScanIndexForward=False); Limit counts the items read, before the filter
RECURSIVE Scan(_, _, _, _, _)
Scan(table, alumno_id, silabo_id, t, limit) ==
    IF t = 0 \/ limit = 0 THEN <<>>
    ELSE LET item == table[[ALUMNO_ID |-> alumno_id, DATE_TIME |-> t]] IN
         IF ~item.present
         THEN Scan(table, alumno_id, silabo_id, t - 1, limit)
         ELSE (IF FilterMatches(item, silabo_id)
               THEN <<[USER_MESSAGE |-> item.USER_MESSAGE, DATE_TIME |-> t]>>
               ELSE <<>>)
              \o Scan(table, alumno_id, silabo_id, t - 1, limit - 1)

\* what get_message_history returns when the query succeeds
MessageHistory(table, alumno_id, silabo_id, cant_items) ==
    IF cant_items > 0 THEN Scan(table, alumno_id, silabo_id, MaxTime, cant_items)
    ELSE <<>>

\* get_message_history (behind /get_history): the query; an exception is
\* printed and [] returned
GetMessageHistory(alumno_id, silabo_id, cant_items) ==
    /\ InFlight = {}
    /\ MayStart
    /\ ops' = ops + 1
    /\ \/ /\ call' = [pc |-> "returned", fn |-> "history",
                      items |-> MessageHistory(chat, alumno_id, silabo_id, cant_items)]
          /\ UNCHANGED faults
       \/ /\ cant_items > 0
          /\ CanFault
          /\ faults' = faults + 1
          /\ call' = [pc |-> "returned", fn |-> "history", items |-> <<>>]
    /\ response' = APIResponse(TRUE, "OK")
    /\ UNCHANGED <<chat, rem, query, files_table, hash_table, index, nextId,
                   downloads, s3, library, local_rows, ing, del, serial, pre>>

\* the query with the syllabus left out of the filter
SelectedAnyScope(table, alumno_id, silabo_id) ==
    {k \in ChatKeys : /\ k.ALUMNO_ID = alumno_id
                      /\ table[k].present
                      /\ table[k].IS_DELETED = FALSE}

\* table.query of delete_messages: the keys of the user's items that pass
\* the filter
Selected(table, alumno_id, silabo_id) ==
    {k \in ChatKeys : /\ k.ALUMNO_ID = alumno_id
                      /\ table[k].present
                      /\ FilterMatches(table[k], silabo_id)}

\* update_item "SET IS_DELETED = :is_deleted" on every key of marked
MarkDeleted(table, marked) ==
    [k \in ChatKeys |-> IF k \in marked THEN [table[k] EXCEPT !.IS_DELETED = TRUE]
                        ELSE table[k]]

\* delete_messages (behind /delete_history): the query, then one update_item
\* per item in the order of the sort key.  An exception of the query or of
\* an update_item is printed and the call returns; the items updated before
\* it stay marked.  The endpoint answers success whatever happened.
DeleteMessages(alumno_id, silabo_id) ==
    /\ InFlight = {}
    /\ MayStart
    /\ ops' = ops + 1
    /\ LET items == Selected(chat, alumno_id, silabo_id) IN
       \/ /\ chat' = MarkDeleted(chat, items)
          /\ UNCHANGED faults
       \/ /\ CanFault
          /\ faults' = faults + 1
          /\ \E j \in 0..MaxTime :
                LET marked == {k \in items : k.DATE_TIME <= j} IN
                /\ marked # items \/ items = {}
                /\ chat' = MarkDeleted(chat, marked)
    /\ response' = APIResponse(TRUE, "Historial eliminado exitosamente")
    /\ UNCHANGED <<rem, call, query, files_table, hash_table, index, nextId,
                   downloads, s3, library, local_rows, ing, del, serial, pre>>

\* ------------------------------------------------------- the ask flow
\* the listings of a set of rows, in any order
Listings(rows) ==
    {rs \in [1..Cardinality(rows) -> rows] :
        \A i, j \in 1..Cardinality(rows) : i # j => rs[i] # rs[j]}

\* SQLServerToSQLite.search_in_local_db(syllabus_event_id): the rows of
\* recursos_didacticos of one syllabus, in the order the table gives them
search_in_local_db(rows, sid) == Listings({r \in rows : r[1] = sid})

\* pinecone_index.query(filter=...): the vectors the filter lets through.
\* A vector's metadata is the dynamodb_item, so it has a resource_id and no
\* syllabus_event_id; with filter=None every vector is a candidate.
Matching(idx, filter) ==
    IF filter = NoFilter THEN idx
    ELSE {v \in idx :
            /\ ~filter.has_syllabus_event_id
            /\ filter.has_resource_id
               => \E i \in 1..Len(filter.resource_id_in) :
                     filter.resource_id_in[i] = v.resource_id}

\* Settings.history_cant_elements
history_cant_elements == 5

\* the steps of ask_question that can fail, and "none"
AskFailures == {"history", "lookup", "context", "llm", "upload"}

\* message.AnswerResponse as ask_question builds it
AnswerResponse(success, answer) ==
    [sent |-> TRUE, success |-> success, answer |-> answer]

\* no failure ends the request: every exception is taken for handled
AbortsNever(fail) == FALSE

\* the failures that reach the except clause of ask_question: the
\* membership lookup, get_documents_context and bedrock_converse raise;
\* get_message_history and upload_message catch their own exceptions
Aborts(fail) == fail \in {"lookup", "context", "llm"}

\* ask_question: the history is read (a failed read gives []), the
\* membership rows of the syllabus are looked up and handed to
\* get_documents_context(message, None, data); the matches whose score
\* reaches the threshold are some of the vectors the filter lets through,
\* and their texts make up the context; the LLM answers, the turn is
\* uploaded and the answer returned.  An exception that reaches the except
\* clause gives the error response.
AskQuestion(user_id, sid, message, fail) ==
    /\ InFlight = {}
    /\ MayStart
    /\ ops' = ops + 1
    /\ IF fail = "none" THEN UNCHANGED faults
       ELSE CanFault /\ faults' = faults + 1
    /\ \E data \in search_in_local_db(local_rows, sid) :
          LET filter == FilterSent(FilterConditions([given |-> FALSE, value |-> 0],
                                                    [given |-> TRUE, rows |-> data]))
              history == IF fail = "history" THEN <<>>
                         ELSE MessageHistory(chat, user_id, Str(sid),
                                             history_cant_elements)
          IN \E used \in SUBSET Matching(index, filter) :
                /\ call' = [pc |-> "returned", fn |-> "ask",
                            syllabus_event_id |-> sid,
                            data |-> IF fail = "lookup" THEN <<>> ELSE data,
                            filter |-> filter,
                            sources |-> IF fail \in {"lookup", "context"} THEN {}
                                        ELSE {v.resource_id : v \in used},
                            history |-> history,
                            failed |-> fail]
                /\ IF Aborts(fail)
                   THEN /\ UNCHANGED chat
                        /\ response' = AnswerResponse(FALSE, "error")
                   ELSE /\ IF fail = "upload" THEN UNCHANGED chat
                           ELSE \E t \in Clock(chat)..MaxTime :
                                   chat' = PutTurn(chat, user_id, Str(sid), message, t)
                        /\ response' = AnswerResponse(TRUE, "answer")
    /\ UNCHANGED <<rem, files_table, hash_table, index, nextId, downloads, s3,
                   library, local_rows, ing, del, serial, pre, query>>

\* ------------------------------------------------- chunking of a document
\* A document text is the sequence of its pieces, the stretches between
\* blank lines ("\n\n"); a piece is given by its number of tokens.
PieceTokens == {100, 300, 500, 7900}

DocumentTexts == UNION {[1..n -> PieceTokens] : n \in 1..MaxPieces}

Formats == {"pdf", "pptx", "docx", "xlsx"}

\* chunk_size of the splitter each loader builds
ChunkSize(format) == IF format = "xlsx" THEN 8000 ELSE 400

\* chunk_overlap of the splitter each loader builds
ChunkOverlap(format) == IF format = "xlsx" THEN 0 ELSE 20

\* tokens of the separator "\n\n" of CharacterTextSplitter
SeparatorLen == 1

RECURSIVE Sum(_)
Sum(ns) == IF ns = <<>> THEN 0 ELSE Head(ns) + Sum(Tail(ns))

\* tokens of pieces joined by the separator
Total(pieces) ==
    IF pieces = <<>> THEN 0 ELSE Sum(pieces) + SeparatorLen * (Len(pieces) - 1)

\* CharacterTextSplitter, the inner while loop of the merge: pieces are
\* dropped from the front of the current chunk until the overlap fits
RECURSIVE Shrink(_, _, _, _)
Shrink(current, len, size, overlap) ==
    IF \/ Total(current) > overlap
       \/ /\ Total(current) + len + (IF Len(current) > 0 THEN SeparatorLen ELSE 0) > size
          /\ Total(current) > 0
    THEN Shrink(Tail(current), len, size, overlap)
    ELSE current

\* CharacterTextSplitter.split_documents for one text: the text is cut at
\* the separator and the pieces are merged while the chunk stays within
\* chunk_size; a piece is never cut, so a piece longer than chunk_size
\* becomes a chunk of its own.  The result lists the tokens of each chunk.
RECURSIVE MergeSplits(_, _, _, _, _)
MergeSplits(splits, current, docs, size, overlap) ==
    IF splits = <<>>
    THEN IF current = <<>> THEN docs ELSE Append(docs, Total(current))
    ELSE LET d == Head(splits)
             over == Total(current) + d
                     + (IF Len(current) > 0 THEN SeparatorLen ELSE 0) > size
         IN IF over /\ Len(current) > 0
            THEN MergeSplits(Tail(splits),
                             Append(Shrink(current, d, size, overlap), d),
                             Append(docs, Total(current)), size, overlap)
            ELSE MergeSplits(Tail(splits), Append(current, d), docs, size, overlap)

\* TokenTextSplitter.split_text: windows of chunk_size tokens over the
\* tokens of the whole text, the next window starting chunk_overlap earlier
RECURSIVE Windows(_, _, _, _)
Windows(n, start, size, overlap) ==
    IF start >= n THEN <<>>
    ELSE IF start + size >= n THEN <<n - start>>
         ELSE <<size>> \o Windows(n, start + size - overlap, size, overlap)

\* the splitter each loader builds: process_resource_pdf, _pptx and _docx use
\* CharacterTextSplitter.from_tiktoken_encoder, process_resource_xlsx uses
\* TokenTextSplitter
SplitterOf(format) ==
    IF format = "xlsx" THEN "TokenTextSplitter" ELSE "CharacterTextSplitter"

\* tokens of the chunks a loader hands to add_to_pinecone for one text
Chunks(format, pieces) ==
    IF SplitterOf(format) = "TokenTextSplitter"
    THEN Windows(Total(pieces), 0, ChunkSize(format), ChunkOverlap(format))
    ELSE MergeSplits(pieces, <<>>, <<>>, ChunkSize(format), ChunkOverlap(format))

SplitCalls ==
    [pc : {"called"}, fn : {"split"}, format : Formats, pieces : DocumentTexts,
     chunks : {<<>>}]

\* the splitting step of process_resource_pdf / _pptx / _docx / _xlsx
SplitDocument ==
    /\ call.pc = "called"
    /\ call.fn = "split"
    /\ call' = [call EXCEPT !.pc = "returned",
                            !.chunks = Chunks(call.format, call.pieces)]
    /\ UNCHANGED <<chat, rem, files_table, hash_table, index, nextId, downloads, s3,
                   library, local_rows, ing, del, faults, ops, serial, pre,
                   response, query>>

\* ------------------------------------------------ sanitize_filename alone
\* characters of a title: a precomposed accented letter, a space, a letter,
\* a tab, a combining mark, a dot
TitleChars == {"iacute", " ", "a", "\t", "COMB_ACUTE", "."}

Titles == UNION {[1..n -> TitleChars] : n \in 0..MaxTitleLen}

SanitizeCalls == [pc : {"called"}, fn : {"sanitize"}, title : Titles, result : {<<>>}]

\* sanitize_filename(event['TituloRecurso'])
SanitizeTitle ==
    /\ call.pc = "called"
    /\ call.fn = "sanitize"
    /\ call' = [call EXCEPT !.pc = "returned",
                            !.result = sanitize_filename(call.title)]
    /\ UNCHANGED <<chat, rem, files_table, hash_table, index, nextId, downloads, s3,
                   library, local_rows, ing, del, faults, ops, serial, pre,
                   response, query>>

\* ----------------------------------------------------------- specification
IngestStep(p) ==
    \/ \E e \in Events : BeginIngest(p, e)
    \/ Download(p)
    \/ Hash(p)
    \/ UploadS3(p)
    \/ GetHash(p)
    \/ PutHash(p)
    \/ PutFile(p)
    \/ ProcessPlain(p)
    \/ ProcessXlsx(p)
    \/ ProcessUnsupported(p)
    \/ Update(p)
    \/ Remove(p)
    \/ ReturnIngest(p)

DeleteStep(d) ==
    \/ \E rid \in Rids : BeginDelete(d, rid)
    \/ GetItem(d)
    \/ DeleteHash(d)
    \/ DeleteVectors(d)
    \/ DeleteFile(d)
    \/ ReturnDelete(d)

Next ==
    \/ \E p \in IngestWorkers : IngestStep(p)
    \/ \E d \in DeleteWorkers : DeleteStep(d)
    \/ \E data \in SUBSET SqlRows : Run(0, data)
    \/ \E sid \in SilaboIds : \E data \in SUBSET {r \in SqlRows : r[1] = sid} :
          Run(sid, data)
    \/ \E rows \in LibraryRows : SaveToLibrary(rows)

\* requests of several processes interleave at every store call
Spec == Init /\ [][Next]_vars

\* one request at a time
SpecSeq == InitSeq /\ [][Next]_vars

\* one request at a time, and only add_resource requests arrive
NextIngest == \E p \in IngestWorkers : IngestStep(p)

SpecIngest == InitSeq /\ [][NextIngest]_vars

\* query_pinecone applied to every call in Queries
InitQuery == InitStores /\ serial = TRUE /\ query \in Queries /\ call = NoCall

NextQuery == QueryPinecone

SpecQuery == InitQuery /\ [][NextQuery]_vars

\* one request at a time: resources are added, the local membership table
\* is refreshed and questions are asked
NextAsk ==
    \/ \E p \in IngestWorkers : IngestStep(p)
    \/ \E sid \in SilaboIds : \E data \in SUBSET {r \in SqlRows : r[1] = sid} :
          Run(sid, data)
    \/ \E u \in Users : \E sid \in SilaboIds : \E m \in Messages :
          \E fail \in AskFailures \cup {"none"} : AskQuestion(u, sid, m, fail)

SpecAsk == InitSeq /\ [][NextAsk]_vars

\* the two removal functions applied to every state in StartStores
InitCompare ==
    InitStores /\ serial = TRUE /\ query = NoQuery /\ call \in CompareCalls

SpecCompare == InitCompare /\ [][CompareRemovals]_vars

\* one request at a time on the chat history table
NextChat ==
    \/ \E u \in Users : \E s \in ScopeIds : \E m \in Messages : UploadMessage(u, s, m)
    \/ \E u \in Users : \E s \in ScopeIds : \E n \in HistoryLimits :
          GetMessageHistory(u, s, n)
    \/ \E u \in Users : \E s \in ScopeIds : DeleteMessages(u, s)

SpecChat == InitSeq /\ [][NextChat]_vars

\* one request at a time: questions are asked and histories cleared
NextConverse ==
    \/ \E u \in Users : \E sid \in SilaboIds : \E m \in Messages :
          \E fail \in AskFailures \cup {"none"} : AskQuestion(u, sid, m, fail)
    \/ \E u \in Users : \E s \in ScopeIds : DeleteMessages(u, s)

SpecConverse == InitSeq /\ [][NextConverse]_vars

\* the library table is written and resources are taken out of it by
\* callers that may overlap
NextLibrary ==
    \/ \E rows \in LibraryRows : SaveToLibrary(rows)
    \/ \E w \in LibraryWorkers : \E sid \in Silabos : \E rid \in Rids :
          BeginRemoveFromLibrary(w, sid, rid)
    \/ \E w \in LibraryWorkers : GetLibraryItem(w)
    \/ \E w \in LibraryWorkers : UpdateLibraryItem(w)
    \/ \E w \in LibraryWorkers : ReturnRemoveFromLibrary(w)

SpecLibrary == Init /\ [][NextLibrary]_vars

\* the splitters applied to every text in DocumentTexts
InitSplit ==
    InitStores /\ serial = TRUE /\ query = NoQuery /\ call \in SplitCalls

NextSplit == SplitDocument

SpecSplit == InitSplit /\ [][NextSplit]_vars

\* sanitize_filename applied to every title in Titles
InitSanitize ==
    InitStores /\ serial = TRUE /\ query = NoQuery /\ call \in SanitizeCalls

NextSanitize == SanitizeTitle

SpecSanitize == InitSanitize /\ [][NextSanitize]_vars

TypeOK ==
    /\ nextId \in 1..(MaxIds + 1)
    /\ faults \in 0..MaxFaults
    /\ ops \in 0..MaxOps
    /\ \A v \in index : v.id < nextId

\* ------------------------------------------------------------- properties
\* hash of the bytes the descriptor of worker p points to
EventHash(p) == generate_file_hash(DriveContent(ing[p].event.DriveId))

\* the ids of a pinecone_ids list
IdsOf(ids) == {ids[i] : i \in 1..Len(ids)}

Embedded(ft, r) == ft[r].present /\ ft[r].pinecone_ids # <<>>

\* C1 (sequential dedup): a process_event run whose file hash is already in
\* the hash table when the run starts never gets True from
\* upload_to_dynamodb, never calls add_to_pinecone and leaves the vector
\* index as it was; when it reaches its end without an exception the
\* register result is False.
C1_SequentialDedup ==
    \A p \in IngestWorkers :
        (ing[p].pc # "idle" /\ pre.taken /\ pre.hashes[EventHash(p)].present)
        => /\ ing[p].result # "True"
           /\ ~ing[p].embed_called
           /\ index = pre.vectors
           /\ (ing[p].pc = "done" /\ ~ing[p].error => ing[p].result = "False")

\* a second resource id with the bytes of an embedded resource was rejected
C1_Witness ==
    \E p \in IngestWorkers : \E r \in Rids :
        /\ ing[p].pc = "done"
        /\ ing[p].result = "False"
        /\ r # ing[p].event.RecursoDidacticoId
        /\ Embedded(files_table, r)
        /\ files_table[r].file_hash = ing[p].file_hash

\* C2 (concurrent dedup): of two process_event runs that are in flight
\* together on byte-identical content, and are the only requests so far, at
\* most one has register == True.
C2_AtMostOneRegisters ==
    \A p, q \in IngestWorkers :
        (/\ p # q
         /\ ops = 2
         /\ ing[p].pc # "idle" /\ ing[q].pc # "idle"
         /\ ing[p].file_hash # None
         /\ ing[p].file_hash = ing[q].file_hash)
        => ~(ing[p].result = "True" /\ ing[q].result = "True")

\* C3 (round-trip removal): for a resource that was embedded,
\* delete_resource issues index.delete with the pinecone_ids of the record,
\* and when it has run to its end without an exception no vector of the
\* index carries that resource_id.
C3_RoundTripRemoval ==
    \A d \in DeleteWorkers :
        (del[d].pc # "idle" /\ pre.taken /\ Embedded(pre.files, del[d].resource_id))
        => /\ del[d].pc = "del_vectors"
              => del[d].pinecone_ids = pre.files[del[d].resource_id].pinecone_ids
           /\ (del[d].pc = "done" /\ del[d].outcome = "removed")
              => \A v \in index : v.resource_id # del[d].resource_id

\* C4 (hash-index invariant): between requests, also after re-ingestion of a
\* known resource_id with other bytes and with no store call raising, the
\* hash table has an entry for h iff some record has file_hash h.
C4_HashIndexInvariant ==
    (InFlight = {} /\ faults = 0)
    => \A h \in Hashes :
         hash_table[h].present
         <=> \E r \in Rids : files_table[r].present /\ files_table[r].file_hash = h

\* C5 (no orphaned vectors): between requests, with no store call raising,
\* every vector of the index is
\* listed in the pinecone_ids of exactly one record.
C5_NoOrphanedVectors ==
    (InFlight = {} /\ faults = 0)
    => \A v \in index :
         Cardinality({r \in Rids : /\ files_table[r].present
                                   /\ v.id \in IdsOf(files_table[r].pinecone_ids)}) = 1

\* C6 (content-hash uniqueness): no two records carry the same file_hash,
\* also after a removal that ended with the failure message.
C6_HashUnique ==
    faults = 0
    => \A r1, r2 \in Rids :
         (/\ r1 # r2
          /\ files_table[r1].present /\ files_table[r2].present
          /\ files_table[r1].file_hash # None)
         => files_table[r1].file_hash # files_table[r2].file_hash

\* C7 (no back transition): a step of an ingestion leaves every embedded
\* record as it is.
C7_NoBackTransition ==
    [][\A r \in Rids :
         (Embedded(files_table, r) /\ del' = del)
         => files_table'[r] = files_table[r]]_vars

\* C8 (membership consistency): when the delete_resource endpoint has removed
\* a resource, neither the library table nor recursos_didacticos refers to it.
C8_MembershipConsistency ==
    \A d \in DeleteWorkers :
        (del[d].pc = "done" /\ del[d].outcome = "removed")
        => del[d].resource_id \notin (LibraryMembers \cup LocalMembers)

C10_RemoveUnembedded ==
    \A d \in DeleteWorkers :
        LET rid == del[d].resource_id IN
        (/\ del[d].pc = "done"
         /\ faults = 0
         /\ pre.taken
         /\ pre.files[rid].present
         /\ pre.files[rid].pinecone_ids = <<>>)
        => /\ del[d].outcome = "removed"
           /\ ~files_table[rid].present
           /\ ~hash_table[pre.files[rid].file_hash].present

\* C11 (embedding failure leaves the resource unembedded): when a step after
\* register == True has failed (an exception that ended process_event, or one
\* caught by process_resource_xlsx), the record exists with empty
\* pinecone_ids; and update_item is never about to run with a non-empty
\* proper part of the ids generated for the chunks.
C11_FailureLeavesUnembedded ==
    \A p \in IngestWorkers :
        LET rid == ing[p].event.RecursoDidacticoId IN
        /\ (/\ ing[p].result = "True"
            /\ \/ ing[p].pc = "done" /\ ing[p].error
               \/ ing[p].pc \in {"remove", "done"} /\ ing[p].caught)
           => /\ files_table[rid].present
              /\ files_table[rid].pinecone_ids = <<>>
        /\ ing[p].pc = "update"
           => ~(/\ ing[p].pinecone_ids # <<>>
                /\ IdsOf(ing[p].pinecone_ids) \subseteq IdsOf(ing[p].uuids)
                /\ IdsOf(ing[p].pinecone_ids) # IdsOf(ing[p].uuids))

\* an upsert failed after writing part of the vectors of a two-chunk file
C11_Witness ==
    \E p \in IngestWorkers :
        LET rid == ing[p].event.RecursoDidacticoId
            written == {v \in index : v.id \in IdsOf(ing[p].uuids)}
        IN /\ ing[p].pc = "done"
           /\ ing[p].error
           /\ ing[p].embed_called
           /\ written # {}
           /\ Cardinality(written) < Len(ing[p].uuids)
           /\ files_table[rid].present
           /\ files_table[rid].pinecone_ids = <<>>

\* C12 (attached ids equal generated ids): when an ingestion of a supported
\* document got past update_item with no step failing, the record's
\* pinecone_ids is the uuids list of add_to_pinecone: one id per chunk,
\* pairwise different, not in use before the run, the i-th id being the id
\* under which chunk i is stored in the index for this resource.
C12_AttachedIdsEqualGenerated ==
    \A p \in IngestWorkers :
        LET rid == ing[p].event.RecursoDidacticoId IN
        (/\ ing[p].pc \in {"remove", "done"}
         /\ ing[p].result = "True"
         /\ ~ing[p].error /\ ~ing[p].caught
         /\ FileType(ing[p].file_name) # "unsupported"
         /\ pre.taken)
        => LET ids == files_table[rid].pinecone_ids IN
           /\ files_table[rid].present
           /\ ids = ing[p].uuids
           /\ Len(ids) = NumChunks(DriveContent(ing[p].event.DriveId))
           /\ \A i \in 1..Len(ids) :
                 /\ \E v \in index : /\ v.id = ids[i]
                                     /\ v.chunk = i
                                     /\ v.resource_id = rid
                 /\ \A v \in pre.vectors : v.id # ids[i]
                 /\ \A r \in Rids :
                       pre.files[r].present
                       => ids[i] \notin IdsOf(pre.files[r].pinecone_ids)
                 /\ \A j \in 1..Len(ids) : j # i => ids[j] # ids[i]

\* a two-chunk file was ingested while the index already held vectors
C12_Witness ==
    \E p \in IngestWorkers :
        LET rid == ing[p].event.RecursoDidacticoId IN
        /\ ing[p].pc = "done"
        /\ ing[p].result = "True"
        /\ ~ing[p].error
        /\ pre.taken
        /\ pre.vectors # {}
        /\ Len(files_table[rid].pinecone_ids) = 2

\* position of a step of process_event in the order fetch, hash, (store),
\* register (get, put, put), extract/chunk/embed, attach, (cleanup)
Stage(pc) ==
    CASE pc = "idle" -> 0
      [] pc = "download" -> 1
      [] pc = "hash" -> 2
      [] pc = "s3" -> 3
      [] pc = "get_hash" -> 4
      [] pc = "put_hash" -> 5
      [] pc = "put_file" -> 6
      [] pc = "process" -> 7
      [] pc = "update" -> 8
      [] pc = "remove" -> 9
      [] OTHER -> 10

\* C13 (register gate ordering): a run of process_event only moves forward
\* through fetch, hash, register, extract/chunk/embed, attach; it is at the
\* embedding or the attach step, or has called add_to_pinecone, only with
\* register == True; and vectors enter the index only in a step of a run
\* that is at the embedding step with register == True.
C13_RegisterGateOrdering ==
    [][/\ \A p \in IngestWorkers :
            /\ (ing'[p].pc # ing[p].pc /\ ing'[p].pc # "idle")
               => Stage(ing'[p].pc) > Stage(ing[p].pc)
            /\ ing'[p].file_hash # None => Stage(ing'[p].pc) >= 3
            /\ ing'[p].result # None => Stage(ing'[p].pc) >= 7
            /\ ing'[p].pc \in {"process", "update"} => ing'[p].result = "True"
            /\ ing'[p].embed_called => ing'[p].result = "True"
       /\ (index' \ index # {})
          => \E p \in IngestWorkers :
                /\ ing[p].pc = "process"
                /\ ing[p].result = "True"
                /\ \A v \in index' \ index :
                      v.resource_id = ing[p].event.RecursoDidacticoId]_vars

\* a run has embedded its chunks and is about to attach the ids
C13_Witness ==
    \E p \in IngestWorkers :
        /\ ing[p].pc = "update"
        /\ ing[p].embed_called
        /\ ing[p].result = "True"
        /\ ing[p].pinecone_ids # <<>>

\* C14 (endpoint outcome reporting): the response of add_resource has
\* success = true exactly when process_event ended without an error, and the
\* response of delete_resource has success = true exactly when the resource
\* was removed (not when it was not found or a store call failed).
C14_EndpointOutcome ==
    [][/\ \A p \in IngestWorkers :
            (ing[p].pc = "done" /\ ing'[p].pc = "idle")
            => (response'.success <=> ~ing[p].error)
       /\ \A d \in DeleteWorkers :
            (del[d].pc = "done" /\ del'[d].pc = "idle")
            => (response'.success <=> del[d].outcome = "removed")]_vars

\* C15 (temporary file cleanup): when process_event has ended after a
\* download that succeeded (the hash of the file was computed), the file is
\* no longer in ./downloads, also when a later step failed.
C15_TempFileCleanup ==
    \A p \in IngestWorkers :
        (ing[p].pc = "done" /\ ing[p].file_hash # None)
        => downloads[ing[p].file_name] = NoFile

\* the part of a file name after its last dot; empty when it has no dot
Extension(name) ==
    LET dots == {i \in 1..Len(name) : name[i] = "."} IN
    IF dots = {} THEN <<>>
    ELSE LET k == CHOOSE i \in dots : \A j \in dots : j <= i
         IN SubSeq(name, k + 1, Len(name))

SupportedExtensions ==
    { <<"p", "d", "f">>, <<"p", "p", "t", "x">>, <<"d", "o", "c", "x">>,
      <<"x", "l", "s", "x">> }

\* C16 (unsupported format is not fatal): with no call failing, a run whose
\* file name has an extension other than pdf, pptx, docx, xlsx and whose
\* register returned True makes no embedding call and adds no vector, and
\* ends without an error, the record registered with empty pinecone_ids and
\* the hash entry present.
C16_UnsupportedNonFatal ==
    \A p \in IngestWorkers :
        LET rid == ing[p].event.RecursoDidacticoId IN
        (/\ faults = 0
         /\ pre.taken
         /\ ing[p].result = "True"
         /\ lower(Extension(ing[p].file_name)) \notin SupportedExtensions)
        => /\ ~ing[p].embed_called
           /\ index = pre.vectors
           /\ ing[p].pc = "done"
              => /\ ~ing[p].error
                 /\ files_table[rid].present
                 /\ files_table[rid].pinecone_ids = <<>>
                 /\ hash_table[ing[p].file_hash].present

\* positions of the newlines of a text
Newlines(s) == {i \in 1..Len(s) : s[i] = "\n"}

\* number of newline-terminated entries of an output
NumEntries(s) == Cardinality(Newlines(s))

\* position of the k-th newline of s, 0 for k = 0
NthNewline(s, k) ==
    IF k = 0 THEN 0
    ELSE CHOOSE i \in Newlines(s) : Cardinality({j \in Newlines(s) : j <= i}) = k

\* the k-th entry of an output, without its newline
Line(s, k) == SubSeq(s, NthNewline(s, k - 1) + 1, NthNewline(s, k) - 1)

\* a text without its blanks and newlines
Letters(s) == SelectSeq(s, LAMBDA c : c \notin {" ", "\n"})

\* the matches with a score of at least t, in ranked order
AtLeast(results, t) == SelectSeq(results, LAMBDA m : m.score >= t)

\* C17 (threshold filter): the return value of query_pinecone consists of
\* one newline-terminated, non-empty line per match whose score is at least
\* the threshold, in ranked order, the k-th line carrying the text of the
\* k-th such match; matches below the threshold leave nothing, so the number
\* of newlines equals the number of matches that reach the threshold.
C17_ThresholdFilter ==
    query.pc = "returned"
    => LET out == query.relevant_data
           kept == AtLeast(query.results, query.threshold)
       IN /\ NumEntries(out) = Len(kept)
          /\ (out # <<>> => out[Len(out)] = "\n")
          /\ (kept = <<>> => out = <<>>)
          /\ \A k \in 1..Len(kept) :
                /\ Line(out, k) # <<>>
                /\ Letters(Line(out, k)) = Letters(DocumentContent(kept[k]))

\* a match above and a match below the threshold, the kept text holding a
\* newline of its own
C17_Witness ==
    /\ query.pc = "returned"
    /\ \E i, j \in 1..Len(query.results) :
          /\ query.results[i].score >= query.threshold
          /\ Newlines(query.results[i].text) # {}
          /\ query.results[j].score < query.threshold
    /\ query.relevant_data # <<>>

C19_AllowSetContent ==
    (query.pc = "returned" /\ Truthy(query.data))
    => /\ query.filter # NoFilter
       /\ query.filter.has_resource_id
       /\ IdsOf(query.filter.resource_id_in)
          = {query.data.rows[i][4] : i \in 1..Len(query.data.rows)}

\* C20 (threshold monotonicity): for the matches of a call, every threshold
\* that is not below the one in force yields at most as many entries as the
\* call returned.
C20_ThresholdMonotone ==
    query.pc = "returned"
    => \A t2 \in Thresholds :
          query.threshold <= t2
          => NumEntries(RelevantData(query.results, t2))
             <= NumEntries(query.relevant_data)

\* a call whose output loses an entry when the threshold is raised
C20_Witness ==
    /\ query.pc = "returned"
    /\ \E t2 \in Thresholds :
          /\ query.threshold < t2
          /\ NumEntries(RelevantData(query.results, t2))
             < NumEntries(query.relevant_data)
          /\ NumEntries(RelevantData(query.results, t2)) > 0

\* C21 (context text normalisation): every entry of the context has no
\* newline besides the one that ends it and no two consecutive spaces: the
\* return value has one newline per kept match and no pair of adjacent
\* spaces anywhere.
C21_TextNormalised ==
    query.pc = "returned"
    => LET out == query.relevant_data IN
       /\ NumEntries(out) = Len(AtLeast(query.results, query.threshold))
       /\ \A i \in 1..(Len(out) - 1) : ~(out[i] = " " /\ out[i + 1] = " ")

\* C22 (empty context is a normal outcome): when the index returned no match
\* or no match reaches the threshold, query_pinecone returns (it does not
\* raise) and its return value is the empty string.
C22_EmptyContext ==
    (query.pc # "called" /\ query.pc # "idle"
     /\ \A i \in 1..Len(query.results) :
           query.results[i].score < query.threshold)
    => /\ query.pc = "returned"
       /\ query.relevant_data = <<>>

\* matches came back, none of them reaches the threshold
C22_Witness ==
    /\ query.pc = "returned"
    /\ query.results # <<>>
    /\ \A i \in 1..Len(query.results) : query.results[i].score < query.threshold
    /\ query.relevant_data = <<>>

\* the maximum the chunk bound names for each format
ChunkBound(format) == IF format = "xlsx" THEN 8000 ELSE 400

\* C23 (chunk bound): every chunk a loader hands to add_to_pinecone has at
\* most M tokens, M = 400 for PDF, PPTX and DOCX and 8000 for XLSX.
C23_ChunkBound ==
    (call.pc = "returned" /\ call.fn = "split")
    => \A i \in 1..Len(call.chunks) : call.chunks[i] <= ChunkBound(call.format)

\* Python str.isspace for the characters of a title
IsSpace(c) == c \in {" ", "\t"}

\* Unicode categories Mn, Mc, Me
IsCombiningMark(c) == c = "COMB_ACUTE"

\* C25 (filename sanitisation): the result of sanitize_filename is a fixed
\* point of sanitize_filename, holds no whitespace character and no
\* combining mark, and the accented title with a space maps to the plain
\* title with an underscore.
C25_Sanitised ==
    (call.pc = "returned" /\ call.fn = "sanitize")
    => /\ sanitize_filename(call.result) = call.result
       /\ \A i \in 1..Len(call.result) :
             ~IsSpace(call.result[i]) /\ ~IsCombiningMark(call.result[i])
       /\ call.title = <<"iacute", " ", "a">> => call.result = <<"i", "_", "a">>

\* C24 (embedding failure is returned as a value): for every document
\* format, when the embedding or upsert call of a loader fails, the loader
\* returns an empty id list instead of raising: process_event goes on to
\* update_item with pinecone_ids empty and no exception.
C24_EmbeddingFailureReturned ==
    [][\A p \in IngestWorkers :
          (/\ ing[p].pc = "process"
           /\ downloads[ing[p].file_name] # NoFile
           /\ ing'[p] # ing[p]
           /\ faults' > faults)
          => /\ ing'[p].pc = "update"
             /\ ing'[p].pinecone_ids = <<>>
             /\ ~ing'[p].error]_vars

\* C26 (recoverability of registered(unembedded)): when a record with
\* empty pinecone_ids exists and process_event runs to its end without a
\* failure for the same descriptor (same file name, a supported format) and
\* the same bytes, the resource is embedded afterwards.
C26_RetryEmbeds ==
    \A p \in IngestWorkers :
        LET rid == ing[p].event.RecursoDidacticoId IN
        (/\ ing[p].pc = "done"
         /\ ~ing[p].error
         /\ ~ing[p].caught
         /\ FileType(ing[p].file_name) \in {"pdf", "pptx", "docx", "xlsx"}
         /\ pre.taken
         /\ pre.files[rid].present
         /\ pre.files[rid].pinecone_ids = <<>>
         /\ pre.files[rid].file_hash = ing[p].file_hash
         /\ pre.files[rid].s3_path = ing[p].file_name)
        => /\ Embedded(files_table, rid)
           /\ IdsOf(files_table[rid].pinecone_ids) \subseteq {v.id : v \in index}

\* C28 (rejected ingestion leaves the ledger and the index unchanged): once
\* upload_to_dynamodb has returned False, the resource table, the hash table
\* and the vector index are what they were when process_event was called.
C28_RejectedFrame ==
    \A p \in IngestWorkers :
        (ing[p].result = "False" /\ pre.taken)
        => /\ files_table = pre.files
           /\ hash_table = pre.hashes
           /\ index = pre.vectors

\* a rejected run has ended; its resource id has no record, so an
\* update_item would have created one
C28_Witness ==
    \E p \in IngestWorkers :
        /\ ing[p].pc = "done"
        /\ ~ing[p].error
        /\ ing[p].result = "False"
        /\ ~files_table[ing[p].event.RecursoDidacticoId].present
        /\ hash_table[ing[p].file_hash].present

\* C29 (fetch failure aborts cleanly): the step in which the download
\* fails ends process_event with the exception logged, and the S3 bucket,
\* the hash table, the resource table and the index are what they were when
\* process_event was called.
C29_FetchFailureFrame ==
    [][\A p \in IngestWorkers :
          (ing[p].pc = "download" /\ faults' > faults)
          => /\ ing'[p].pc = "done"
             /\ ing'[p].error
             /\ ing'[p].file_hash = None
             /\ pre.taken
             /\ s3' = pre.objects
             /\ hash_table' = pre.hashes
             /\ files_table' = pre.files
             /\ index' = pre.vectors]_vars

\* a download has failed while the stores held a resource
C29_Witness ==
    \E p \in IngestWorkers :
        /\ ing[p].pc = "done"
        /\ ing[p].error
        /\ ing[p].file_hash = None
        /\ downloads[ing[p].file_name] = NoFile
        /\ index # {}
        /\ s3 = pre.objects

FullyPresent(r) ==
    /\ files_table[r].present
    /\ files_table[r].file_hash # None
    /\ hash_table[files_table[r].file_hash].present
    /\ \E v \in index : v.resource_id = r

\* resource r is fully absent: no record, no vectors of it
FullyAbsent(r, h) ==
    /\ ~files_table[r].present
    /\ ~hash_table[h].present
    /\ ~\E v \in index : v.resource_id = r

\* C31 (remove concurrent with an in-flight ingestion): when
\* delete_resource made all its store calls after the ingestion of the same
\* resource_id registered and before its update_item, and both have
\* finished without a failure, the resource is fully present or fully
\* absent.
C31_PresentOrAbsent ==
    \A p \in IngestWorkers : \A d \in DeleteWorkers :
        (/\ ing[p].pc = "done" /\ ~ing[p].error /\ ~ing[p].caught
         /\ ing[p].result = "True"
         /\ del[d].pc = "done" /\ del[d].outcome = "removed"
         /\ del[d].window
         /\ del[d].resource_id = ing[p].event.RecursoDidacticoId)
        => \/ FullyPresent(del[d].resource_id)
           \/ FullyAbsent(del[d].resource_id, ing[p].file_hash)

\* C38 (failed refresh keeps the cache): a run() that obtains no rows from
\* SQL Server (fetch_data_from_sql_server returned []) leaves the local table
\* recursos_didacticos as it was, for the full refresh (id_silabus = "",
\* here 0) and for the refresh of one syllabus.
C38_FailedRefreshKeepsCache ==
    [][\A sid \in {0} \cup SilaboIds :
          Run(sid, {}) => local_rows' = local_rows]_vars

\* C34 (the two removal implementations agree): from the same starting
\* state and for the same resource_id, delete_resource and
\* delete_resource_and_vectors leave the resource table, the hash table and
\* the index in the same final state.
C34_RemovalsAgree ==
    (call.pc = "returned" /\ call.fn = "compare")
    => call.by_delete_resource = call.by_delete_resource_and_vectors

\* the entries of a resources list
Listed(resources) == {resources[i] : i \in 1..Len(resources)}

\* C32 (concurrent library removals do not lose updates): when two
\* remove_resource_from_library calls for the same silabus_id and different
\* resource_ids have both found the syllabus and ended, the syllabus's
\* resources list holds neither resource_id.
C32_NoLostRemoval ==
    \A w1, w2 \in LibraryWorkers :
        (/\ w1 # w2
         /\ rem[w1].pc = "done" /\ rem[w2].pc = "done"
         /\ rem[w1].silabus_id = rem[w2].silabus_id
         /\ rem[w1].resource_id # rem[w2].resource_id
         /\ rem[w1].resource_id \in Listed(rem[w1].resources)
         /\ rem[w2].resource_id \in Listed(rem[w2].resources))
        => LET now == Listed(library[rem[w1].silabus_id].resources) IN
           /\ rem[w1].resource_id \notin now
           /\ rem[w2].resource_id \notin now

\* the turns of a (user, syllabus) pair that are stored and not deleted
Visible(table, u, s) ==
    {k \in ChatKeys : /\ k.ALUMNO_ID = u /\ table[k].present
                      /\ table[k].SILABUS_ID = s /\ ~table[k].IS_DELETED}

\* what C35 says of a delete_messages(u, s) step
SoftDeleted(u, s) ==
    /\ \A n \in HistoryLimits : MessageHistory(chat', u, s, n) = <<>>
    /\ \A k \in ChatKeys :
          /\ chat'[k].present = chat[k].present
          /\ chat[k].present
             => /\ chat'[k].SILABUS_ID = chat[k].SILABUS_ID
                /\ chat'[k].USER_MESSAGE = chat[k].USER_MESSAGE
                /\ (k.ALUMNO_ID # u \/ chat[k].SILABUS_ID # s)
                   => chat'[k].IS_DELETED = chat[k].IS_DELETED

C36_DistinctTurns ==
    [][\A u \in Users : \A s \in ScopeIds : \A m \in Messages :
          UploadMessage(u, s, m)
          => \A k \in ChatKeys :
                (chat[k].present /\ chat'[k] # chat[k])
                => k.ALUMNO_ID = u /\ chat[k].SILABUS_ID = s]_vars

====
